---- MODULE Spec2Model ----
(***************************************************************************)
(* Model of package goparser (github.com/goiste/goparser).                 *)
(*                                                                         *)
(* The package holds one parsed file (GoParser.f) and offers four pure     *)
(* queries over it: GetBasicValues, GetSliceValues, GetMapValues and       *)
(* GetFuncNames.  The value queries share walkDecls and the generic        *)
(* literal decoder parseBasicLit.                                          *)
(*                                                                         *)
(* Conventions                                                             *)
(*   - Go strings that the code inspects character by character (literal   *)
(*     text, comment lines, type names) are sequences of one-character     *)
(*     strings; names that are only copied are TLA+ strings.               *)
(*   - Integers are decimal digit sequences (most significant first), so   *)
(*     that 64-bit ranges are exact.                                       *)
(*   - A Go pointer result is a record [st, type, v]: st = "ok" (non-nil), *)
(*     "nil", or "panic" (a run-time panic unwinding through the caller).  *)
(*     type is the dynamic Go type of the value where it matters.          *)
(***************************************************************************)
EXTENDS Integers, Sequences, FiniteSets, TLC

VARIABLES f, call, ret, fnCalls

vars == <<f, call, ret, fnCalls>>

(***************************************************************************)
(* Generic helpers                                                         *)
(***************************************************************************)
Range(s) == {s[i] : i \in 1..Len(s)}

Front(s) == SubSeq(s, 1, Len(s) - 1)

Last(s) == s[Len(s)]

RECURSIVE SeqsUpTo(_, _)
SeqsUpTo(S, n) ==
  IF n = 0 THEN {<<>>}
  ELSE LET P == SeqsUpTo(S, n - 1)
       IN  P \cup {Append(p, x) : p \in {q \in P : Len(q) = n - 1}, x \in S}

Nil == [st |-> "nil", type |-> "", v |-> <<>>]

Panic == [st |-> "panic", type |-> "", v |-> <<>>]

Ok(t, x) == [st |-> "ok", type |-> t, v |-> x]

(***************************************************************************)
(* Decimal arithmetic on digit sequences                                   *)
(***************************************************************************)
DigitChars == <<"0", "1", "2", "3", "4", "5", "6", "7", "8", "9">>

IsDigit(c) == c \in Range(DigitChars)

DigitVal(c) == (CHOOSE i \in 1..10 : DigitChars[i] = c) - 1

RECURSIVE Strip(_)
Strip(d) == IF Len(d) > 1 /\ d[1] = 0 THEN Strip(Tail(d)) ELSE d

RECURSIVE LexLeq(_, _)
LexLeq(a, b) ==
  IF a = <<>> \/ b = <<>> THEN TRUE
  ELSE IF a[1] < b[1] THEN TRUE
  ELSE IF a[1] > b[1] THEN FALSE
  ELSE LexLeq(Tail(a), Tail(b))

\* a <= b for canonical digit sequences
NumLeq(a, b) == Len(a) < Len(b) \/ (Len(a) = Len(b) /\ LexLeq(a, b))

RECURSIVE SmallDigits(_)
\* digits of a small natural number
SmallDigits(n) == IF n < 10 THEN <<n>> ELSE Append(SmallDigits(n \div 10), n % 10)

RECURSIVE MulAdd(_, _, _)
\* d * k + c, for a digit sequence d and small k, c
MulAdd(d, k, c) ==
  IF d = <<>> THEN (IF c = 0 THEN <<>> ELSE SmallDigits(c))
  ELSE LET t == k * Last(d) + c
       IN  Append(MulAdd(Front(d), k, t \div 10), t % 10)

RECURSIVE Pow2(_)
\* 2^n, a byte at a time
Pow2(n) == IF n < 8 THEN SmallDigits(2 ^ n) ELSE MulAdd(Pow2(n - 8), 256, 0)

RECURSIVE DecFrom(_)
DecFrom(d) ==
  IF Last(d) > 0 THEN Append(Front(d), Last(d) - 1)
  ELSE Append(DecFrom(Front(d)), 9)

\* d - 1 for d > 0
SubOne(d) == Strip(DecFrom(d))

RECURSIVE ToDigits(_)
ToDigits(s) == IF s = <<>> THEN <<>> ELSE <<DigitVal(s[1])>> \o ToDigits(Tail(s))

RECURSIVE ToSmallInt(_)
\* value of a short digit sequence as an integer
ToSmallInt(d) == IF d = <<>> THEN 0 ELSE 10 * ToSmallInt(Front(d)) + Last(d)

(***************************************************************************)
(* strconv                                                                 *)
(***************************************************************************)
BitSizes == {8, 16, 32, 64}

\* 2^bitSize - 1, the largest value ParseUint accepts
MaxUint == [b \in BitSizes |-> SubOne(Pow2(b))]

\* 2^(bitSize-1), the cutoff of ParseInt
IntCutoff == [b \in BitSizes |-> Pow2(b - 1)]

StrconvErr(e) == [err |-> e, neg |-> FALSE, mag |-> <<0>>]

\* strconv.ParseUint(s, 10, bitSize): digits only, no sign, no underscore,
\* range error above 2^bitSize - 1.
ParseUint(s, bitSize) ==
  IF s = <<>> THEN StrconvErr("syntax")
  ELSE IF \E i \in 1..Len(s) : ~IsDigit(s[i]) THEN StrconvErr("syntax")
  ELSE LET InRange(n) ==
             IF NumLeq(n, MaxUint[bitSize])
             THEN [err |-> "nil", neg |-> FALSE, mag |-> n]
             ELSE StrconvErr("range")
       IN  InRange(Strip(ToDigits(s)))

\* strconv.ParseInt(s, 10, bitSize): optional sign, then ParseUint at 64
\* bits, then the cutoff 2^(bitSize-1).
ParseInt(s, bitSize) ==
  IF s = <<>> THEN StrconvErr("syntax")
  ELSE LET neg    == s[1] = "-"
           body   == IF s[1] \in {"+", "-"} THEN Tail(s) ELSE s
           Signed(un, cutoff) ==
             IF un.err = "syntax" THEN StrconvErr("syntax")
             ELSE IF un.err = "range" THEN StrconvErr("range")
             ELSE IF ~neg /\ NumLeq(cutoff, un.mag) THEN StrconvErr("range")
             ELSE IF neg /\ ~NumLeq(un.mag, cutoff) THEN StrconvErr("range")
             ELSE [err |-> "nil", neg |-> neg /\ un.mag # <<0>>, mag |-> un.mag]
       IN  Signed(ParseUint(body, 64), IntCutoff[bitSize])

\* strconv.ParseBool
ParseBool(s) ==
  IF s \in {<<"1">>,
           <<"t">>,
           <<"T">>,
           <<"T", "R", "U", "E">>,
           <<"t", "r", "u", "e">>,
           <<"T", "r", "u", "e">>}
  THEN [err |-> "nil", b |-> TRUE]
  ELSE IF s \in {<<"0">>,
                <<"f">>,
                <<"F">>,
                <<"F", "A", "L", "S", "E">>,
                <<"f", "a", "l", "s", "e">>,
                <<"F", "a", "l", "s", "e">>}
  THEN [err |-> "nil", b |-> FALSE]
  ELSE [err |-> "syntax", b |-> FALSE]

\* single-letter escapes and the control characters they stand for
Escapes == [a |-> "BEL", b |-> "BS", n |-> "LF", t |-> "TAB"]

RECURSIVE UnquoteBody(_, _)
\* the inside of an interpreted string literal quoted by q: a backslash
\* escapes the quote, a backslash or a letter of Escapes; a bare quote or
\* any other escape is a syntax error (numeric escapes are outside the
\* modelled alphabet).  Result: <<TRUE, text>> or <<FALSE, <<>>>>.
UnquoteBody(s, q) ==
  LET Cons(c, r) == IF r[1] THEN <<TRUE, <<c>> \o r[2]>> ELSE r
  IN  IF s = <<>> THEN <<TRUE, <<>>>>
      ELSE IF s[1] = "\\" THEN
             IF Len(s) >= 2 /\ s[2] \in DOMAIN Escapes \cup {"\\", q}
             THEN Cons(IF s[2] \in DOMAIN Escapes THEN Escapes[s[2]] ELSE s[2],
                       UnquoteBody(SubSeq(s, 3, Len(s)), q))
             ELSE <<FALSE, <<>>>>
      ELSE IF s[1] = q THEN <<FALSE, <<>>>>
      ELSE Cons(s[1], UnquoteBody(Tail(s), q))

\* the back-quote character (a TLA+ string cannot hold it)
BackQuote == "BQ"

\* strconv.Unquote for double-quoted, back-quoted and single-quoted literals
Unquote(s) ==
  IF Len(s) < 2 \/ s[1] # Last(s) THEN [err |-> "syntax", s |-> <<>>]
  ELSE LET in == SubSeq(s, 2, Len(s) - 1)
           Str(r) == IF r[1] THEN [err |-> "nil", s |-> r[2]]
                     ELSE [err |-> "syntax", s |-> <<>>]
           Char(r) == IF r[1] /\ Len(r[2]) = 1 THEN [err |-> "nil", s |-> r[2]]
                      ELSE [err |-> "syntax", s |-> <<>>]
       IN  IF s[1] = BackQuote THEN
             IF BackQuote \in Range(in) THEN [err |-> "syntax", s |-> <<>>]
             ELSE [err |-> "nil", s |-> in]
           ELSE IF s[1] = "\"" THEN Str(UnquoteBody(in, "\""))
           ELSE IF s[1] = "'" THEN Char(UnquoteBody(in, "'"))
           ELSE [err |-> "syntax", s |-> <<>>]

\* underscoreOK for decimal text: every underscore separates two digits
UnderscoreOK(s) ==
  \A k \in 1..Len(s) :
    s[k] = "_" => /\ k > 1 /\ IsDigit(s[k - 1])
                  /\ k < Len(s) /\ IsDigit(s[k + 1])

\* first position at or after i whose character is not in A
SpanEnd(s, i, A) ==
  CHOOSE j \in i..(Len(s) + 1) :
    /\ \A k \in i..(j - 1) : s[k] \in A
    /\ j = Len(s) + 1 \/ s[j] \notin A

RECURSIVE OnlyDigits(_)
OnlyDigits(s) ==
  IF s = <<>> THEN <<>>
  ELSE (IF IsDigit(s[1]) THEN <<DigitVal(s[1])>> ELSE <<>>) \o OnlyDigits(Tail(s))

RECURSIVE TrimZeros(_)
\* <<digits without trailing zeros, number of zeros removed>>
TrimZeros(d) ==
  IF Len(d) > 1 /\ Last(d) = 0
  THEN LET One(r) == <<r[1], r[2] + 1>> IN One(TrimZeros(Front(d)))
  ELSE <<d, 0>>

PadTo(d, n) == d \o [i \in 1..(IF Len(d) < n THEN n - Len(d) ELSE 0) |-> 0]

\* decimal exponent above which a value is out of range, and the leading
\* digits of the smallest value that rounds to infinity
FloatLimit(bitSize) == IF bitSize = 32 THEN 39 ELSE 309

FloatThreshold(bitSize) ==
  IF bitSize = 32 THEN <<3, 4, 0, 2, 8, 2, 3, 5, 6, 7, 7, 9, 7, 3, 3, 6, 6>>
  ELSE <<1, 7, 9, 7, 6, 9, 3, 1, 3, 4, 8, 6, 2, 3, 1, 5, 8, 0, 7>>

FloatErr(e) == [err |-> e, neg |-> FALSE, m |-> <<0>>, e |-> 0]

\* strconv.ParseFloat(s, bitSize) on decimal text: [sign] digits [. digits]
\* [e [sign] digits], underscores between digits, range error on overflow.
\* The value is kept as a decimal mantissa and exponent (binary rounding is
\* not modelled); hexadecimal floats, "inf" and "nan" are outside the
\* modelled alphabet.
ParseFloat(s, bitSize) ==
  LET Digs == Range(DigitChars)
      neg  == s[1] = "-"
      i0   == IF s[1] \in {"+", "-"} THEN 2 ELSE 1
      \* the least element of S, or d when S is empty
      First(S, d) == IF S = {} THEN d ELSE CHOOSE k \in S : \A j \in S : k <= j
      \* the value of the digits D (fracD of them after the point) times
      \* ten to the eVal
      Decimal(D, fracD, eVal) ==
        LET Scaled(order, t) ==
              IF \/ order > FloatLimit(bitSize)
                 \/ /\ order = FloatLimit(bitSize)
                    /\ LexLeq(FloatThreshold(bitSize),
                              PadTo(D, Len(FloatThreshold(bitSize))))
              THEN FloatErr("range")
              ELSE [err |-> "nil", neg |-> neg, m |-> t[1],
                    e |-> eVal - Len(fracD) + t[2]]
        IN  IF D = <<0>> THEN [err |-> "nil", neg |-> neg, m |-> <<0>>, e |-> 0]
            ELSE Scaled(Len(D) + eVal - Len(fracD), TrimZeros(D))
      \* the value of an exponent: its sign and its digits
      ExpVal(eneg, eD) ==
        LET Abs(e) == IF eneg THEN 0 - e ELSE e
        IN  Abs(IF Len(eD) > 4 THEN 10000 ELSE ToSmallInt(eD))
      \* the exponent, whose digits start at j1 when it is there (hasE and
      \* eOk) and end before eEnd, after the mantissa intD.fracD
      Exponent(intD, fracD, hasE, eneg, j1, eOk, eEnd) ==
        IF intD \o fracD = <<>> THEN FloatErr("syntax")
        ELSE IF hasE /\ ~eOk THEN FloatErr("syntax")
        ELSE IF eEnd # Len(s) + 1 THEN FloatErr("syntax")
        ELSE IF ~UnderscoreOK(s) THEN FloatErr("syntax")
        ELSE Decimal(Strip(intD \o fracD), fracD,
                     IF hasE /\ eOk
                     THEN ExpVal(eneg, Strip(OnlyDigits(SubSeq(s, j1, eEnd - 1))))
                     ELSE 0)
      ExpDigits(intD, fracD, mEnd, hasE, eneg, j1, eOk) ==
        Exponent(intD, fracD, hasE, eneg, j1, eOk,
                 IF hasE /\ eOk THEN SpanEnd(s, j1, Digs \cup {"_"}) ELSE mEnd)
      ExpSign(intD, fracD, mEnd, hasE, j0) ==
        LET Start(j1) ==
              ExpDigits(intD, fracD, mEnd, hasE, j0 <= Len(s) /\ s[j0] = "-", j1,
                        j1 <= Len(s) /\ IsDigit(s[j1]))
        IN  Start(IF j0 <= Len(s) /\ s[j0] \in {"+", "-"} THEN j0 + 1 ELSE j0)
      \* the mantissa: digits up to the first point dot1, then up to mEnd
      Mantissa(dot1, mEnd) ==
        ExpSign(OnlyDigits(SubSeq(s, i0, dot1 - 1)),
                OnlyDigits(SubSeq(s, dot1 + 1, mEnd - 1)),
                mEnd, mEnd <= Len(s) /\ s[mEnd] \in {"e", "E"}, mEnd + 1)
      Points(mEnd0, dots) ==
        LET Second(dot1) == Mantissa(dot1, First(dots \ {dot1}, mEnd0))
        IN  Second(First(dots, mEnd0))
      Span(mEnd0) == Points(mEnd0, {k \in i0..(mEnd0 - 1) : s[k] = "."})
  IN  IF s = <<>> THEN FloatErr("syntax")
      ELSE Span(SpanEnd(s, i0, Digs \cup {"_", "."}))

(***************************************************************************)
(* The literal decoder                                                     *)
(***************************************************************************)
Kinds == {"bool", "string", "int8", "int16", "int32", "int64",
          "uint8", "uint16", "uint32", "uint64", "float32", "float64"}

SignedKinds == {"int8", "int16", "int32", "int64"}

UnsignedKinds == {"uint8", "uint16", "uint32", "uint64"}

IntKinds == SignedKinds \cup UnsignedKinds

FloatKinds == {"float32", "float64"}

TokenKinds == {"INT", "FLOAT", "IMAG", "CHAR", "STRING"}

\* x.(T) on an interface value: the dynamic type must be identical to T
TypeAssert(x, T) == IF x.type = T THEN x ELSE Panic

\* "if p == nil { return nil }; x = (interface{})(*p).(T)"
Deref(p, T) == IF p.st # "ok" THEN p ELSE TypeAssert(p, T)

BasicLit(k, s) == [node |-> "BasicLit", Kind |-> k, Value |-> s]

Ident(n) == [node |-> "Ident", Name |-> n]

parseBool(val) ==
  LET Res(r) == IF r.err # "nil" THEN Nil ELSE Ok("bool", r.b)
  IN  Res(ParseBool(val.Name))

parseUint(I, s) ==
  IF I \notin UnsignedKinds THEN Nil
  ELSE LET bitSize == CASE I = "uint8" -> 8 [] I = "uint16" -> 16
                        [] I = "uint32" -> 32 [] I = "uint64" -> 64
           Res(r) == IF r.err # "nil" THEN Nil
                     ELSE TypeAssert(Ok("uint64", [neg |-> r.neg, mag |-> r.mag]), I)
       IN  Res(ParseUint(s, bitSize))

parseInt(I, s) ==
  IF I \notin SignedKinds THEN Nil
  ELSE LET bitSize == CASE I = "int8" -> 8 [] I = "int16" -> 16
                        [] I = "int32" -> 32 [] I = "int64" -> 64
           Res(r) == IF r.err # "nil" THEN Nil
                     ELSE TypeAssert(Ok("int64", [neg |-> r.neg, mag |-> r.mag]), I)
       IN  Res(ParseInt(s, bitSize))

parseIntLit(I, val) ==
  IF val.Kind # "INT" THEN Nil
  ELSE IF I \in SignedKinds THEN parseInt(I, val.Value)
  ELSE IF I \in UnsignedKinds THEN parseUint(I, val.Value)
  ELSE Nil

parseFloat(F, s) ==
  IF F \notin FloatKinds THEN Nil
  ELSE LET bitSize == IF F = "float32" THEN 32 ELSE 64
           Res(r) == IF r.err # "nil" THEN Nil
                     ELSE TypeAssert(Ok("float64", [neg |-> r.neg, m |-> r.m, e |-> r.e]), F)
       IN  Res(ParseFloat(s, bitSize))

\* parseFloatLit without its test of the literal kind
parseFloatLit_AnyKind(F, val) ==
  IF F \in FloatKinds THEN parseFloat(F, val.Value)
  ELSE Nil

parseFloatLit(F, val) ==
  IF val.Kind # "FLOAT" THEN Nil
  ELSE IF F \in FloatKinds THEN parseFloat(F, val.Value)
  ELSE Nil

parseBasicLit(V, val) ==
  IF V = "string" THEN
    IF val.Kind # "STRING" THEN Nil
    ELSE LET Res(r) == IF r.err # "nil" THEN Nil ELSE Ok("string", r.s)
         IN  Res(Unquote(val.Value))
  ELSE IF V \in IntKinds THEN Deref(parseIntLit(V, val), V)
  ELSE IF V \in FloatKinds THEN Deref(parseFloatLit(V, val), V)
  ELSE Nil

(***************************************************************************)
(* Literals the decoder is applied to                                      *)
(***************************************************************************)
\* decimal text of the largest value of each integer kind
MaxText ==
  [int8 |-> <<"1", "2", "7">>,
   int16 |-> <<"3", "2", "7", "6", "7">>,
   int32 |-> <<"2", "1", "4", "7", "4", "8", "3", "6", "4", "7">>,
   int64 |-> <<"9", "2", "2", "3", "3", "7", "2", "0", "3", "6", "8", "5", "4", "7", "7", "5", "8", "0", "7">>,
   uint8 |-> <<"2", "5", "5">>,
   uint16 |-> <<"6", "5", "5", "3", "5">>,
   uint32 |-> <<"4", "2", "9", "4", "9", "6", "7", "2", "9", "5">>,
   uint64 |-> <<"1", "8", "4", "4", "6", "7", "4", "4", "0", "7", "3", "7", "0", "9", "5", "5", "1", "6", "1", "5">>]

\* decimal text of the largest value plus one
MaxPlusOneText ==
  [int8 |-> <<"1", "2", "8">>,
   int16 |-> <<"3", "2", "7", "6", "8">>,
   int32 |-> <<"2", "1", "4", "7", "4", "8", "3", "6", "4", "8">>,
   int64 |-> <<"9", "2", "2", "3", "3", "7", "2", "0", "3", "6", "8", "5", "4", "7", "7", "5", "8", "0", "8">>,
   uint8 |-> <<"2", "5", "6">>,
   uint16 |-> <<"6", "5", "5", "3", "6">>,
   uint32 |-> <<"4", "2", "9", "4", "9", "6", "7", "2", "9", "6">>,
   uint64 |-> <<"1", "8", "4", "4", "6", "7", "4", "4", "0", "7", "3", "7", "0", "9", "5", "5", "1", "6", "1", "6">>]

IntTexts ==
  {MaxText[k] : k \in IntKinds} \cup {MaxPlusOneText[k] : k \in IntKinds} \cup
  {<<"0">>,
   <<"3">>,
   <<"1", "7">>,
   <<"0", "0", "7">>,
   <<"0", "x", "7", "F">>,
   <<"1", "_", "0", "0", "0">>,
   <<"-", "5">>,
   <<>>}

FloatTexts ==
  {<<"3", ".", "1", "4">>,
   <<"0", ".", "4", "2">>,
   <<"4", "2", ".", "0">>,
   <<"1", "e", "4", "0">>,
   <<"1", "e", "4", "0", "0">>,
   <<"1", ".", "5", ".", "2">>,
   <<"1", "e">>,
   <<".", "5">>,
   <<"3", "i">>}

StringTexts ==
  {<<"\"", "a", "\"">>,
   <<"\"", "3", "\"">>,
   <<BackQuote, "a", BackQuote>>,
   <<"\"", "a">>,
   <<"'", "a", "'">>,
   <<"\"", "a", "\\", "\"", "b", "\"">>,
   <<"\"", "\\", "n", "\"">>}

Texts == IntTexts \cup FloatTexts \cup StringTexts

Lits == {BasicLit(k, s) : k \in TokenKinds, s \in Texts}

(***************************************************************************)
(* Syntax tree nodes (go/ast)                                              *)
(***************************************************************************)
CompositeLit(elts) == [node |-> "CompositeLit", Elts |-> elts]

KeyValueExpr(k, v) == [node |-> "KeyValueExpr", Key |-> k, Value |-> v]

\* any expression the package has no case for (call, unary, selector ...)
OtherExpr == [node |-> "UnaryExpr"]

\* ValueSpec.Doc: nil, or a comment group with its lines
NoDoc == [isNil |-> TRUE, List |-> <<>>]

CommentGroup(lines) == [isNil |-> FALSE, List |-> lines]

\* a name of a ValueSpec; Obj is "nil" or the kind of node Obj.Decl is
\* (for "ValueSpec" it is the spec that holds the name)
NameIdent(n, obj) == [Name |-> n, Obj |-> obj]

ValueSpec(doc, names, values) ==
  [node |-> "ValueSpec", Doc |-> doc, Names |-> names, Values |-> values]

TypeSpec == [node |-> "TypeSpec"]

GenDecl(specs) == [node |-> "GenDecl", Specs |-> specs]

(***************************************************************************)
(* walkDecls and its decode steps                                          *)
(***************************************************************************)
RECURSIVE TrimLeft(_, _)
\* strings.TrimLeft(s, cutset)
TrimLeft(s, cutset) ==
  IF s # <<>> /\ s[1] \in cutset THEN TrimLeft(Tail(s), cutset) ELSE s

RECURSIVE FindDoc_LastMatch(_, _)
\* the loop without its break: a later matching line replaces an earlier one
FindDoc_LastMatch(list, docMap) ==
  IF list = <<>> THEN <<>>
  ELSE LET docTxt == TrimLeft(Last(list), {"/", " "})
       IN  IF docTxt \in docMap THEN docTxt
           ELSE FindDoc_LastMatch(Front(list), docMap)

RECURSIVE FindDoc(_, _)
\* the loop of walkDecls over vSpec.Doc.List: the first trimmed line that is
\* in docMap, or "" when there is none
FindDoc(list, docMap) ==
  IF list = <<>> THEN <<>>
  ELSE LET docTxt == TrimLeft(list[1], {"/", " "})
       IN  IF docTxt \in docMap THEN docTxt ELSE FindDoc(Tail(list), docMap)

Record(doc, name, value) == [Doc |-> doc, Name |-> name, Value |-> value]

\* the closure getBasicValues hands to walkDecls
BasicStep(V, doc, name, val) ==
  LET Bool(b) == IF b.st # "ok" THEN Nil
                 ELSE Ok("LitValue", Record(doc, name, TypeAssert(b, V).v))
      Basic(b) == IF b.st # "ok" THEN b
                  ELSE Ok("LitValue", Record(doc, name, b.v))
  IN  IF val.node = "Ident" THEN
        IF V # "bool" THEN Nil ELSE Bool(parseBool(val))
      ELSE IF val.node = "BasicLit" THEN Basic(parseBasicLit(V, val))
      ELSE Nil

RECURSIVE SliceLoop_Skip(_, _, _)
\* the loop with "continue" where the code returns nil
SliceLoop_Skip(V, elts, sValues) ==
  IF elts = <<>> THEN Ok("values", sValues)
  ELSE IF elts[1].node # "BasicLit" THEN SliceLoop_Skip(V, Tail(elts), sValues)
  ELSE LET Element(pVal) ==
             IF pVal.st = "panic" THEN pVal
             ELSE IF pVal.st = "nil" THEN SliceLoop_Skip(V, Tail(elts), sValues)
             ELSE SliceLoop_Skip(V, Tail(elts), Append(sValues, pVal.v))
       IN  Element(parseBasicLit(V, elts[1]))

RECURSIVE SliceLoop(_, _, _)
\* the loop of getSliceValues over cmpVal.Elts; sValues is the accumulator
SliceLoop(V, elts, sValues) ==
  IF elts = <<>> THEN Ok("values", sValues)
  ELSE IF elts[1].node # "BasicLit" THEN SliceLoop(V, Tail(elts), sValues)
  ELSE LET Element(pVal) ==
             IF pVal.st # "ok" THEN pVal
             ELSE SliceLoop(V, Tail(elts), Append(sValues, pVal.v))
       IN  Element(parseBasicLit(V, elts[1]))

\* the closure getSliceValues hands to walkDecls
SliceStep(V, doc, name, val) ==
  IF val.node # "CompositeLit" THEN Nil
  ELSE LET Res(r) ==
             IF r.st # "ok" THEN r
             ELSE IF Len(r.v) > 0 THEN Ok("SliceLitValue", Record(doc, name, r.v))
             ELSE Nil
       IN  Res(SliceLoop(V, val.Elts, <<>>))

\* m[k] = v on a Go map held as a function
MapPut(m, k, v) == [x \in DOMAIN m \cup {k} |-> IF x = k THEN v ELSE m[x]]

RECURSIVE MapLoop(_, _, _, _)
\* the loop of getMapValues over cmpVal.Elts; cValues is the accumulator
MapLoop(K, V, elts, cValues) ==
  IF elts = <<>> THEN Ok("values", cValues)
  ELSE LET cVal == elts[1] IN
    IF cVal.node # "KeyValueExpr" THEN MapLoop(K, V, Tail(elts), cValues)
    ELSE IF cVal.Key.node # "BasicLit" \/ cVal.Value.node # "BasicLit"
    THEN MapLoop(K, V, Tail(elts), cValues)
    ELSE LET Pair(k, v) ==
               IF k.st = "panic" THEN Panic
               ELSE IF v.st = "panic" THEN Panic
               ELSE IF k.st = "nil" \/ v.st = "nil"
               THEN MapLoop(K, V, Tail(elts), cValues)
               ELSE MapLoop(K, V, Tail(elts), MapPut(cValues, k.v, v.v))
         IN  Pair(parseBasicLit(K, cVal.Key), parseBasicLit(V, cVal.Value))

\* the closure getMapValues hands to walkDecls
MapStep(K, V, doc, name, val) ==
  IF val.node # "CompositeLit" THEN Nil
  ELSE LET Res(r) ==
             IF r.st # "ok" THEN r
             ELSE IF Cardinality(DOMAIN r.v) > 0
             THEN Ok("MapLitValue", Record(doc, name, r.v))
             ELSE Nil
       IN  Res(MapLoop(K, V, val.Elts, <<>>))

\* fn(doc, name, val) for the query q = [op, K, V]
Fn(q, doc, name, val) ==
  IF q.op = "GetBasicValues" THEN BasicStep(q.V, doc, name, val)
  ELSE IF q.op = "GetSliceValues" THEN SliceStep(q.V, doc, name, val)
  ELSE MapStep(q.K, q.V, doc, name, val)

\* the accumulator of a walk: the result list, the decode-step invocations
\* made so far, and whether a panic is unwinding
WalkStart == [st |-> "ok", result |-> <<>>, calls |-> <<>>]

\* the body of "for _, n := range s.Names"
NameStep(acc, s, n, docMap, q) ==
  IF n.Obj = "nil" THEN acc
  ELSE IF n.Obj # "ValueSpec" THEN acc
  ELSE LET vSpec == s
           \* "if res := fn(foundDoc, n.Name, val); res != nil"
           Collect(val, res) ==
             [st     |-> IF res.st = "panic" THEN "panic" ELSE acc.st,
              result |-> IF res.st = "ok" THEN Append(acc.result, res.v)
                         ELSE acc.result,
              calls  |-> Append(acc.calls,
                                [name |-> n.Name, val |-> val, res |-> res])]
           Found(foundDoc) ==
             IF foundDoc = <<>> THEN acc
             ELSE IF Len(vSpec.Values) = 0 THEN [acc EXCEPT !.st = "panic"]
             ELSE Collect(vSpec.Values[1],
                          Fn(q, foundDoc, n.Name, vSpec.Values[1]))
       IN  IF vSpec.Doc.isNil \/ Len(vSpec.Doc.List) < 1 THEN acc
           ELSE Found(FindDoc(vSpec.Doc.List, docMap))

RECURSIVE WalkNames(_, _, _, _, _)
WalkNames(acc, s, names, docMap, q) ==
  IF names = <<>> \/ acc.st = "panic" THEN acc
  ELSE WalkNames(NameStep(acc, s, names[1], docMap, q), s, Tail(names), docMap, q)

RECURSIVE WalkSpecs(_, _, _, _)
WalkSpecs(acc, specs, docMap, q) ==
  IF specs = <<>> \/ acc.st = "panic" THEN acc
  ELSE LET s == specs[1]
       IN  WalkSpecs(IF s.node = "ValueSpec"
                     THEN WalkNames(acc, s, s.Names, docMap, q)
                     ELSE acc,
                     Tail(specs), docMap, q)

RECURSIVE WalkFile(_, _, _, _)
WalkFile(acc, decls, docMap, q) ==
  IF decls = <<>> \/ acc.st = "panic" THEN acc
  ELSE LET d == decls[1]
       IN  WalkFile(IF d.node = "GenDecl"
                    THEN WalkSpecs(acc, d.Specs, docMap, q)
                    ELSE acc,
                    Tail(decls), docMap, q)

walkDecls(file, docMap, q) == WalkFile(WalkStart, file, docMap, q)

\* GetBasicValues, GetSliceValues, GetMapValues: nil for no labels, else the
\* walk with the labels as a set
GetValues(file, q) ==
  IF Len(q.docLabels) = 0 THEN WalkStart
  ELSE walkDecls(file, Range(q.docLabels), q)


(***************************************************************************)
(* GetFuncNames                                                            *)
(***************************************************************************)
StarExpr(x) == [node |-> "StarExpr", X |-> x]

\* X.Sel; sel is an Ident or NilIdent
SelectorExpr(x, sel) == [node |-> "SelectorExpr", X |-> x, Sel |-> sel]

NilIdent == [node |-> "nil"]

IndexExpr(x, index) == [node |-> "IndexExpr", X |-> x, Index |-> index]

ArrayType(elt) == [node |-> "ArrayType", Elt |-> elt]

Field(type) == [Type |-> type]

\* *ast.FieldList, possibly nil
NoFieldList == [isNil |-> TRUE, List |-> <<>>]

FieldList(fields) == [isNil |-> FALSE, List |-> fields]

\* *ast.FuncType, possibly nil
NoFuncType == [isNil |-> TRUE, Params |-> NoFieldList]

FuncType(params) == [isNil |-> FALSE, Params |-> params]

FuncDecl(name, recv, type) ==
  [node |-> "FuncDecl", Name |-> name, Recv |-> recv, Type |-> type]

RECURSIVE EscapeQ(_)
EscapeQ(s) ==
  IF s = <<>> THEN <<>>
  ELSE (IF s[1] \in {"\"", "\\"} THEN <<"\\", s[1]>> ELSE <<s[1]>>) \o EscapeQ(Tail(s))

\* fmt.Sprintf("%q", s): s in double quotes, quotes and backslashes escaped
Quote(s) == <<"\"">> \o EscapeQ(s) \o <<"\"">>

\* the receiver test: "pass", "skip" (continue) or "panic" (rec.List[0] of
\* an empty list)
RecvTest(decl, recType) ==
  LET rec == decl.Recv IN
  IF rec.isNil THEN (IF recType # <<>> THEN "skip" ELSE "pass")
  ELSE IF Len(rec.List) = 0 THEN "panic"
  ELSE LET rType == rec.List[1].Type IN
    IF rType.node = "Ident" THEN
      IF rType.Name # recType THEN "skip" ELSE "pass"
    ELSE IF rType.node = "StarExpr" THEN
      IF rType.X.node # "Ident" THEN "skip"
      ELSE IF rType.X.Name # recType THEN "skip" ELSE "pass"
    ELSE "pass"

\* the names one parameter field adds to paramsMap
ParamNames(par) ==
  LET pType == par.Type IN
  IF pType.node = "Ident" THEN {pType.Name}
  ELSE IF pType.node = "StarExpr" THEN
    LET sType == pType.X IN
    IF sType.node = "Ident" THEN {sType.Name}
    ELSE IF sType.node = "SelectorExpr" THEN
      IF sType.Sel.node = "nil" THEN {} ELSE {sType.Sel.Name}
    ELSE {}
  ELSE IF pType.node = "SelectorExpr" THEN
    IF pType.Sel.node = "nil" THEN {} ELSE {pType.Sel.Name}
  ELSE {}

ParamsMap(list) == UNION {ParamNames(list[i]) : i \in 1..Len(list)}

\* the loop satisfied by any one required name instead of all of them
ParamsTest_Any(paramsMap, paramTypes) ==
  \E i \in 1..Len(paramTypes) :
    paramTypes[i] \in paramsMap \/ Quote(paramTypes[i]) \in paramsMap

\* the loop over paramTypes: FALSE when it ends in "continue outer"
ParamsTest(paramsMap, paramTypes) ==
  \A i \in 1..Len(paramTypes) :
    LET par  == paramTypes[i]
        ok   == par \in paramsMap
        okQt == Quote(par) \in paramsMap
    IN  ~(~ok /\ ~okQt)

\* the body of the loop of GetFuncNames for one declaration
FuncStep(acc, decl, recType, paramTypes) ==
  IF decl.node # "FuncDecl" THEN acc
  ELSE LET t == decl.Type
           Receiver(rt) ==
             IF rt = "panic" THEN [acc EXCEPT !.st = "panic"]
             ELSE IF rt = "skip" THEN acc
             ELSE IF (t.isNil \/ t.Params.isNil) /\ Len(paramTypes) > 0 THEN acc
             ELSE IF ~t.isNil /\ ~t.Params.isNil
                     /\ ~ParamsTest(ParamsMap(t.Params.List), paramTypes) THEN acc
             ELSE [acc EXCEPT !.v = Append(@, decl.Name)]
       IN  Receiver(RecvTest(decl, recType))

RECURSIVE FuncLoop(_, _, _, _)
FuncLoop(acc, decls, recType, paramTypes) ==
  IF decls = <<>> \/ acc.st = "panic" THEN acc
  ELSE FuncLoop(FuncStep(acc, decls[1], recType, paramTypes),
                Tail(decls), recType, paramTypes)

getFuncNames(file, recType, paramTypes) ==
  FuncLoop([st |-> "ok", v |-> <<>>], file, recType, paramTypes)

(***************************************************************************)
(* Files and calls the queries are applied to                              *)
(***************************************************************************)
\* bounds
MaxSpecs == 2

MaxElts == 2

MaxFuncs == 2

MaxParams == 2

MaxReq == 2

InsertAt(s, i, x) ==
  [k \in 1..(Len(s) + 1) |-> IF k < i THEN s[k] ELSE IF k = i THEN x ELSE s[k - 1]]

\* sequences of at most max shapes, exactly one of them from Rich
Layouts(Small, Rich, max) ==
  UNION {{InsertAt(b, i, r) : i \in 1..(Len(b) + 1), r \in Rich} :
           b \in SeqsUpTo(Small, max - 1)}

TagP == <<"p">>

TagQ == <<"q">>

L3 == BasicLit("INT", <<"3">>)

L17 == BasicLit("INT", <<"1", "7">>)

LHex == BasicLit("INT", <<"0", "x", "7", "F">>)

LStr == BasicLit("STRING", <<"\"", "a", "\"">>)

LFloat == BasicLit("FLOAT", <<"3", ".", "1", "4">>)

IdentTrue == Ident(<<"t", "r", "u", "e">>)

\* doc comments: none, empty, and lines around the tags p and q
WalkDocs ==
  {NoDoc, CommentGroup(<<>>),
   CommentGroup(<<<<"/", "/", " ", "p">>>>),
   CommentGroup(<<<<"/", "/", "x">>, <<"/", "/", " ", "q">>>>),
   CommentGroup(<<<<"/", "/">>, <<"/", "/", " ", "p">>>>),
   CommentGroup(<<<<"/", "/", " ", "q">>, <<"/", "/", " ", "p">>>>)}

\* names (by the kind of their Obj) and initializers of a value spec
Shape(doc, objs, values) == [Doc |-> doc, Objs |-> objs, Values |-> values]

WalkBodies ==
  {<<<<"ValueSpec">>, <<L3>>>>,
   <<<<"ValueSpec", "ValueSpec">>, <<L3, L17>>>>,
   <<<<"ValueSpec", "ValueSpec">>, <<LStr, LFloat>>>>,
   <<<<"nil", "ValueSpec">>, <<L3, L17>>>>,
   <<<<"ValueSpec", "ValueSpec">>, <<OtherExpr>>>>,
   <<<<"ValueSpec">>, <<>>>>,
   <<<<"nil">>, <<L3>>>>,
   <<<<"ValueSpec">>, <<IdentTrue>>>>,
   <<<<"ValueSpec">>, <<CompositeLit(<<L3, L17>>)>>>>,
   <<<<"ValueSpec">>, <<CompositeLit(<<KeyValueExpr(L3, L17)>>)>>>>}

WalkShapes == {Shape(d, b[1], b[2]) : d \in WalkDocs, b \in WalkBodies}

PlainShapes ==
  {Shape(CommentGroup(<<<<"/", "/", " ", "p">>>>), <<"ValueSpec">>, <<L3>>),
   Shape(NoDoc, <<"ValueSpec">>, <<L17>>)}

\* the i-th value spec of a file; its names are <<"v", i, j>>
MkSpec(sh, i) ==
  ValueSpec(sh.Doc,
            [j \in 1..Len(sh.Objs) |-> NameIdent(<<"v", i, j>>, sh.Objs[j])],
            sh.Values)

\* a function the value queries pass over
PlainFunc == FuncDecl(<<"f", 0>>, NoFieldList, FuncType(FieldList(<<>>)))

\* a file: the first spec in a declaration of its own, a function, then a
\* declaration group with a type and the remaining specs
MkFile(shapes) ==
  LET specs == [i \in 1..Len(shapes) |-> MkSpec(shapes[i], i)]
  IN  <<GenDecl(<<specs[1]>>), PlainFunc, GenDecl(<<TypeSpec>> \o Tail(specs))>>

WalkFiles == {MkFile(l) : l \in Layouts(PlainShapes, WalkShapes, MaxSpecs)}

LabelLists == {<<>>, <<TagP>>, <<TagQ>>, <<TagP, TagQ>>, <<<<>>, TagP>>}

MapKinds == {"string", "int64"}

ValueCall(op, K, V, labels) == [op |-> op, K |-> K, V |-> V, docLabels |-> labels]

WalkCalls ==
  {ValueCall(op, "int64", V, l) :
     op \in {"GetBasicValues", "GetSliceValues"}, V \in Kinds, l \in LabelLists}
  \cup {ValueCall("GetMapValues", K, V, l) :
          K \in MapKinds, V \in MapKinds, l \in LabelLists}

(***************************************************************************)
(* State                                                                   *)
(*   f        the parsed file held by the GoParser                         *)
(*   call     the call being made: the operation and its arguments         *)
(*   ret      what the call returned (st = "none" until it has)            *)
(*   fnCalls  the decode-step invocations walkDecls made during the call   *)
(***************************************************************************)
NoRet == [st |-> "none", type |-> "", v |-> <<>>]

Init ==
  /\ f \in WalkFiles
  /\ call \in WalkCalls
  /\ ret = NoRet
  /\ fnCalls = <<>>

\* a value query runs to its return or to a panic
ValueQuery(op) ==
  /\ call.op = op
  /\ ret.st = "none"
  /\ LET Return(w) ==
           /\ ret' = [st |-> w.st, type |-> "list",
                      v |-> IF w.st = "ok" THEN w.result ELSE <<>>]
           /\ fnCalls' = w.calls
     IN  Return(GetValues(f, call))
  /\ UNCHANGED <<f, call>>

GetBasicValues == ValueQuery("GetBasicValues")

GetSliceValues == ValueQuery("GetSliceValues")

GetMapValues == ValueQuery("GetMapValues")

Next == GetBasicValues \/ GetSliceValues \/ GetMapValues

Spec == Init /\ [][Next]_vars

\* the literal decoder on its own
LitCalls == {[op |-> "parseBasicLit", V |-> V, val |-> val] : V \in Kinds, val \in Lits}

InitLit ==
  /\ f = <<>>
  /\ call \in LitCalls
  /\ ret = NoRet
  /\ fnCalls = <<>>

ParseBasicLitCall ==
  /\ call.op = "parseBasicLit"
  /\ ret.st = "none"
  /\ ret' = parseBasicLit(call.V, call.val)
  /\ UNCHANGED <<f, call, fnCalls>>

NextLit == ParseBasicLitCall

SpecLit == InitLit /\ [][NextLit]_vars

\* collection literals: elements that decode, that do not, and that are not
\* basic literals
CollElts ==
  {L3, L17, LStr, LHex, IdentTrue, CompositeLit(<<L3>>)}
  \cup {KeyValueExpr(k, v) : k \in {L3, LStr, IdentTrue}, v \in {L3, L17, LStr, IdentTrue}}

CollValues ==
  {CompositeLit(l) : l \in SeqsUpTo(CollElts, MaxElts)} \cup {L3, IdentTrue, OtherExpr}

CollShapes == {Shape(CommentGroup(<<<<"/", "/", " ", "p">>>>), <<"ValueSpec">>, <<v>>) : v \in CollValues}

PlainColl ==
  Shape(CommentGroup(<<<<"/", "/", " ", "p">>>>), <<"ValueSpec">>,
        <<CompositeLit(<<L3, KeyValueExpr(L3, L17)>>)>>)

CollFiles == {MkFile(<<PlainColl, sh>>) : sh \in CollShapes}

CollMapKinds == {"string", "int64", "int8"}

CollCalls ==
  {ValueCall("GetSliceValues", "int64", V, <<TagP>>) : V \in Kinds}
  \cup {ValueCall("GetMapValues", K, V, <<TagP>>) : K \in CollMapKinds, V \in CollMapKinds}

InitColl ==
  /\ f \in CollFiles
  /\ call \in CollCalls
  /\ ret = NoRet
  /\ fnCalls = <<>>

NextColl == GetSliceValues \/ GetMapValues

SpecColl == InitColl /\ [][NextColl]_vars

\* function declarations: receivers and parameter types of every shape the
\* filter distinguishes
TypeT == <<"T">>

TypeU == <<"U">>

TypeC == <<"C">>

TypeS == <<"s">>

RecvPool ==
  {NoFieldList,
   FieldList(<<Field(Ident(TypeT))>>),
   FieldList(<<Field(StarExpr(Ident(TypeT)))>>),
   FieldList(<<Field(Ident(TypeU))>>),
   FieldList(<<Field(StarExpr(SelectorExpr(Ident(<<"c">>), Ident(TypeT))))>>),
   FieldList(<<Field(IndexExpr(Ident(TypeT), Ident(<<"E">>)))>>)}

ParamPool ==
  {Field(Ident(TypeC)), Field(Ident(TypeS)), Field(StarExpr(Ident(TypeS))),
   Field(StarExpr(SelectorExpr(Ident(<<"c">>), Ident(TypeC)))),
   Field(SelectorExpr(Ident(<<"c">>), Ident(TypeC))),
   Field(ArrayType(Ident(TypeC)))}

FuncTypePool ==
  {NoFuncType, FuncType(NoFieldList)}
  \cup {FuncType(FieldList(l)) : l \in SeqsUpTo(ParamPool, MaxParams)}

FuncShapes == {[Recv |-> r, Type |-> t] : r \in RecvPool, t \in FuncTypePool}

PlainFuncShapes ==
  {[Recv |-> NoFieldList, Type |-> FuncType(FieldList(<<Field(Ident(TypeC))>>))],
   [Recv |-> FieldList(<<Field(Ident(TypeT))>>),
    Type |-> FuncType(FieldList(<<Field(StarExpr(SelectorExpr(Ident(<<"c">>), Ident(TypeC)))),
                                  Field(Ident(TypeS))>>))]}

\* a file of functions named <<"f", i>>, after a declaration group
MkFuncFile(shapes) ==
  <<GenDecl(<<TypeSpec>>)>>
  \o [i \in 1..Len(shapes) |-> FuncDecl(<<"f", i>>, shapes[i].Recv, shapes[i].Type)]

FuncFiles == {MkFuncFile(l) : l \in Layouts(PlainFuncShapes, FuncShapes, MaxFuncs)}

FuncCalls ==
  {[op |-> "GetFuncNames", recType |-> r, paramTypes |-> p] :
     r \in {<<>>, TypeT}, p \in SeqsUpTo({TypeC, TypeS, Quote(TypeC)}, MaxReq)}

InitFunc ==
  /\ f \in FuncFiles
  /\ call \in FuncCalls
  /\ ret = NoRet
  /\ fnCalls = <<>>

\* GetFuncNames runs to its return or to a panic
GetFuncNames ==
  /\ call.op = "GetFuncNames"
  /\ ret.st = "none"
  /\ LET Return(r) ==
           ret' = [st |-> r.st, type |-> "names",
                   v |-> IF r.st = "ok" THEN r.v ELSE <<>>]
     IN  Return(getFuncNames(f, call.recType, call.paramTypes))
  /\ UNCHANGED <<f, call, fnCalls>>

NextFunc == GetFuncNames

SpecFunc == InitFunc /\ [][NextFunc]_vars

(***************************************************************************)
(* Properties                                                              *)
(***************************************************************************)
Returned == ret.st # "none"

ValueOps == {"GetBasicValues", "GetSliceValues", "GetMapValues"}

\* the value specs of the file, and their bindings (spec, position of name)
ValueSpecsOf(file) ==
  UNION {{d.Specs[i] : i \in {j \in 1..Len(d.Specs) : d.Specs[j].node = "ValueSpec"}} :
           d \in {file[k] : k \in {j \in 1..Len(file) : file[j].node = "GenDecl"}}}

Bindings(file) ==
  UNION {{[spec |-> s, i |-> i] : i \in 1..Len(s.Names)} : s \in ValueSpecsOf(file)}

BindingName(b) == b.spec.Names[b.i].Name

\* a comment line without its leading slashes and spaces
Trimmed(line) ==
  LET k == CHOOSE k \in 0..Len(line) :
             /\ \A j \in 1..k : line[j] \in {"/", " "}
             /\ k = Len(line) \/ line[k + 1] \notin {"/", " "}
  IN  [j \in 1..(Len(line) - k) |-> line[k + j]]

TagLines(doc, tags) == {i \in 1..Len(doc.List) : Trimmed(doc.List[i]) \in tags}

FirstTag(doc, tags) ==
  Trimmed(doc.List[CHOOSE i \in TagLines(doc, tags) : \A j \in TagLines(doc, tags) : i <= j])

\* the literal kind a requested kind decodes from ("none" for bool)
Category(V) ==
  IF V = "string" THEN "STRING"
  ELSE IF V \in IntKinds THEN "INT"
  ELSE IF V \in FloatKinds THEN "FLOAT"
  ELSE "none"

\* C1: an integer-kind literal holding the decimal text of the largest value
\* of the requested integer kind decodes to that value; the text of the
\* largest value plus one is no-match.
C1_IntWidthExact ==
  (call.op = "parseBasicLit" /\ Returned /\ call.V \in IntKinds
     /\ call.val.Kind = "INT") =>
    /\ call.val.Value = MaxText[call.V] =>
         /\ ret.st = "ok"
         /\ ret.type = call.V
         /\ ret.v = [neg |-> FALSE, mag |-> ToDigits(MaxText[call.V])]
    /\ call.val.Value = MaxPlusOneText[call.V] => ret.st = "nil"

\* C8: a basic literal whose literal kind is not the category of the
\* requested kind decodes to no-match, never to a value and never to a failure.
C8_KindMismatchNoMatch ==
  (call.op = "parseBasicLit" /\ Returned
     /\ call.val.Kind # Category(call.V)) => ret.st = "nil"

\* an integer literal requested as float64: its text alone would parse
C8_Witness ==
  /\ call.op = "parseBasicLit" /\ Returned
  /\ call.V = "float64" /\ call.val = BasicLit("INT", <<"3">>)
  /\ ret.st = "nil"

\* C9: a floating-point literal with well-formed text decodes, at float32 and
\* at float64, to a value of the requested kind; malformed text is no-match;
\* a float request never ends in a failure.
C9_FloatBothWidths ==
  (call.op = "parseBasicLit" /\ Returned /\ call.V \in FloatKinds
     /\ call.val.Kind = "FLOAT") =>
    LET Decoded(r) ==
          /\ ret.st # "panic"
          /\ r.err = "nil" => ret.st = "ok" /\ ret.type = call.V
          /\ r.err # "nil" => ret.st = "nil"
    IN  Decoded(ParseFloat(call.val.Value, IF call.V = "float32" THEN 32 ELSE 64))

\* C3: the decode step for the i-th name of a value spec with as many
\* initializers as names is invoked on the i-th initializer.
C3_OwnInitializer ==
  (call.op \in ValueOps /\ Returned) =>
    \A k \in 1..Len(fnCalls) :
      \E b \in Bindings(f) :
        /\ BindingName(b) = fnCalls[k].name
        /\ Len(b.spec.Values) = Len(b.spec.Names) =>
             fnCalls[k].val = b.spec.Values[b.i]

\* C7: every record returned belongs to a binding whose doc comment has a
\* line that, trimmed, is in the tag set; its Doc is the first such line and
\* is not empty; a binding without such a line yields no record and its
\* initializer is never handed to the decode step.
C7_TagSelection ==
  (call.op \in ValueOps /\ Returned) =>
    LET tags == Range(call.docLabels)
        Tagged(b) == ~b.spec.Doc.isNil /\ TagLines(b.spec.Doc, tags) # {}
    IN  /\ \A k \in 1..Len(ret.v) :
             \E b \in Bindings(f) :
               /\ BindingName(b) = ret.v[k].Name
               /\ Tagged(b)
               /\ ret.v[k].Doc = FirstTag(b.spec.Doc, tags)
               /\ ret.v[k].Doc # <<>>
        /\ \A b \in Bindings(f) :
             ~Tagged(b) =>
               /\ \A k \in 1..Len(ret.v) : ret.v[k].Name # BindingName(b)
               /\ \A k \in 1..Len(fnCalls) : fnCalls[k].name # BindingName(b)

\* a record whose binding has two lines in the tag set carries the first
C7_Witness ==
  /\ call.op \in ValueOps /\ ret.st = "ok"
  /\ \E k \in 1..Len(ret.v) :
       \E b \in Bindings(f) :
         /\ BindingName(b) = ret.v[k].Name
         /\ Cardinality(TagLines(b.spec.Doc, Range(call.docLabels))) = 2
         /\ ret.v[k].Doc = TagQ
  /\ \E b \in Bindings(f) :
       /\ b.spec.Doc.isNil
       /\ \A k \in 1..Len(ret.v) : ret.v[k].Name # BindingName(b)

\* C10: with a non-empty tag set walkDecls returns a list whenever the decode
\* steps it invoked returned, also when a tag-matched binding has no
\* initializer; such a binding contributes no record.
C10_WalkTotal ==
  (call.op \in ValueOps /\ Returned /\ Len(call.docLabels) > 0
     /\ \A k \in 1..Len(fnCalls) : fnCalls[k].res.st # "panic") =>
    /\ ret.st = "ok"
    /\ \A b \in Bindings(f) :
         Len(b.spec.Values) = 0 =>
           \A k \in 1..Len(ret.v) : ret.v[k].Name # BindingName(b)

IsBasicLit(e) == e.node = "BasicLit"

\* C5: the sequence decode step yields no record for an initializer that is
\* not a composite literal, skips elements that are not basic literals,
\* yields no record when a basic-literal element does not decode, and
\* otherwise yields the decoded basic-literal elements in source order, or
\* no record when there are none; the records returned are those of the
\* decode steps, in order.
C5_SliceAllOrNothing ==
  (call.op = "GetSliceValues" /\ Returned) =>
    /\ \A k \in 1..Len(fnCalls) :
         LET c == fnCalls[k] IN
         IF c.val.node # "CompositeLit" THEN c.res.st = "nil"
         ELSE LET Decodes(basics, outs) ==
                    IF \E i \in 1..Len(basics) : outs[i].st # "ok"
                    THEN c.res.st # "ok"
                    ELSE IF basics = <<>> THEN c.res.st = "nil"
                    ELSE /\ c.res.st = "ok"
                         /\ c.res.v.Name = c.name
                         /\ c.res.v.Value = [i \in 1..Len(basics) |-> outs[i].v]
                  Basics(basics) ==
                    Decodes(basics,
                            [i \in 1..Len(basics) |-> parseBasicLit(call.V, basics[i])])
              IN  Basics(SelectSeq(c.val.Elts, IsBasicLit))
    /\ ret.st = "ok" =>
         LET oks == SelectSeq(fnCalls, LAMBDA c : c.res.st = "ok")
         IN  ret.v = [i \in 1..Len(oks) |-> oks[i].res.v]

\* a literal with an element that is skipped and one that decodes, next to
\* a literal dropped because its second element does not decode
C5_Witness ==
  /\ call.op = "GetSliceValues" /\ call.V = "int64" /\ ret.st = "ok"
  /\ Len(fnCalls) = 2
  /\ fnCalls[1].res.st = "ok"
  /\ Len(fnCalls[1].val.Elts) = 2 /\ Len(fnCalls[1].res.v.Value) = 1
  /\ fnCalls[2].val = CompositeLit(<<L3, LStr>>)
  /\ fnCalls[2].res.st = "nil"
  /\ Len(ret.v) = 1

\* C2: the mapping decode step yields no record for a composite literal with
\* a key-value element whose key and value are basic literals of which one
\* does not decode at its requested kind.
C2_MapAbortsOnBadPair ==
  (call.op = "GetMapValues" /\ Returned) =>
    \A k \in 1..Len(fnCalls) :
      LET c == fnCalls[k] IN
      (/\ c.val.node = "CompositeLit"
       /\ \E i \in 1..Len(c.val.Elts) :
            LET e == c.val.Elts[i] IN
            /\ e.node = "KeyValueExpr"
            /\ IsBasicLit(e.Key) /\ IsBasicLit(e.Value)
            /\ \/ parseBasicLit(call.K, e.Key).st = "nil"
               \/ parseBasicLit(call.V, e.Value).st = "nil")
        => c.res.st # "ok"

FuncDeclsOf(file) == {file[k] : k \in {j \in 1..Len(file) : file[j].node = "FuncDecl"}}

FuncNamesOf(file) ==
  LET ds == SelectSeq(file, LAMBDA d : d.node = "FuncDecl")
  IN  [i \in 1..Len(ds) |-> ds[i].Name]

\* the receiver's declared type, unwrapped through one pointer, is an
\* identifier named recType; or there is no receiver when recType is empty
RecvMatches(d, recType) ==
  IF recType = <<>> THEN d.Recv.isNil
  ELSE /\ ~d.Recv.isNil
       /\ LET t == d.Recv.List[1].Type
              u == IF t.node = "StarExpr" THEN t.X ELSE t
          IN  u.node = "Ident" /\ u.Name = recType

\* C4: every declaration in the result matches the receiver: a receiver
\* named recType (through at most one pointer) when recType is not empty, no
\* receiver when it is; with no recType and no paramTypes the result is the
\* names of the declarations without receiver, in source order.
C4_ReceiverMatch ==
  (call.op = "GetFuncNames" /\ Returned) =>
    /\ \A k \in 1..Len(ret.v) :
         \E d \in FuncDeclsOf(f) : d.Name = ret.v[k] /\ RecvMatches(d, call.recType)
    /\ (call.recType = <<>> /\ call.paramTypes = <<>>) =>
         ret.v = SelectSeq(FuncNamesOf(f),
                           LAMBDA n : \E d \in FuncDeclsOf(f) : d.Name = n /\ d.Recv.isNil)

\* the resolved type name of a parameter type, if it has one
Resolved(t) ==
  IF t.node = "Ident" THEN {t.Name}
  ELSE IF t.node = "SelectorExpr" THEN {t.Sel.Name}
  ELSE IF t.node = "StarExpr" /\ t.X.node = "Ident" THEN {t.X.Name}
  ELSE IF t.node = "StarExpr" /\ t.X.node = "SelectorExpr" THEN {t.X.Sel.Name}
  ELSE {}

ParamsOf(d) == IF d.Type.isNil \/ d.Type.Params.isNil THEN <<>> ELSE d.Type.Params.List

HasAllParams(d, paramTypes) ==
  \A i \in 1..Len(paramTypes) :
    \E j \in 1..Len(ParamsOf(d)) : paramTypes[i] \in Resolved(ParamsOf(d)[j].Type)

\* C6: a declaration that matches the receiver is in the result exactly when
\* every name of paramTypes is the resolved type name of one of its
\* parameters; the result is in source order.
C6_ParamMatch ==
  (call.op = "GetFuncNames" /\ Returned) =>
    /\ ret.st = "ok"
    /\ \A d \in FuncDeclsOf(f) :
         RecvMatches(d, call.recType) =>
           ((\E k \in 1..Len(ret.v) : ret.v[k] = d.Name)
              <=> HasAllParams(d, call.paramTypes))
    /\ ret.v = SelectSeq(FuncNamesOf(f), LAMBDA n : \E k \in 1..Len(ret.v) : ret.v[k] = n)

\* two names required: a method with both is listed, one with only the
\* first is not
C6_Witness ==
  /\ call.op = "GetFuncNames" /\ ret.st = "ok"
  /\ call.recType = TypeT /\ call.paramTypes = <<TypeC, TypeS>>
  /\ \E d \in FuncDeclsOf(f) :
       /\ RecvMatches(d, TypeT)
       /\ HasAllParams(d, <<TypeC>>) /\ ~HasAllParams(d, <<TypeS>>)
       /\ \A k \in 1..Len(ret.v) : ret.v[k] # d.Name
  /\ Len(ret.v) = 1

====
